---- MODULE Spec2Model ----
(***************************************************************************)
(* Model of the recipe ingestion pipeline:                                 *)
(*   - EmbeddingGenerator (_make_api_request, _save_checkpoint,            *)
(*     _load_checkpoint, generate_embeddings) of                           *)
(*     backend/embedding_pipeline/embedding_generator.py, run repeatedly   *)
(*     over the same input, with the checkpoint file surviving every run;  *)
(*   - VectorDB.insert_recipes and find_similar_recipes of                 *)
(*     backend/embedding_pipeline/vector_db.py against a transactional     *)
(*     table;                                                              *)
(*   - CookingAssistant.process_message behind the chat endpoint of        *)
(*     backend/app/api.py;                                                 *)
(*   - main of backend/process_and_store.py;                               *)
(*   - DataProcessor.get_processed_data of                                 *)
(*     backend/embedding_pipeline/data_processor.py.                       *)
(***************************************************************************)
EXTENDS Integers, Sequences, FiniteSets, TLC

\* ------------------------------------------------------------------------
\* Bounds of the model
\* ------------------------------------------------------------------------
MaxTexts == 7
MaxBatchSize == 2
MaxRuns == 3
MaxFaults == 6
MaxRecipes == 4
MaxInsertBatch == 2
MaxStored == 2
MaxTermLen == 3
MaxLimit == 2
MaxMessageLen == 3
MaxCsvRows == 3
MaxFrameRows == 2

\* ------------------------------------------------------------------------
\* Program constants
\* ------------------------------------------------------------------------
max_retries == 5
Wait503 == 20
Wait429 == 30
CheckpointEvery == 5
VectorDim == 768

\* A network-level failure has no HTTP status; it is written as status 0.
NetErr == 0
\* No response has been received yet.
NoStatus == -1
OtherHttpErrors == {400, 404}
LoopStatuses == {503, 429, 500}
Statuses == {200} \cup LoopStatuses \cup OtherHttpErrors \cup {NetErr}

VARIABLES
    texts,              \* generate_embeddings argument
    metadata,           \* generate_embeddings argument
    batch_size,         \* generate_embeddings argument
    ckpt,               \* checkpoints/embedding_checkpoint.pkl
    pc,                 \* position of the process in generate_embeddings
    i,                  \* loop variable of generate_embeddings (offset)
    all_embeddings,     \* local of generate_embeddings
    processed_metadata, \* local of generate_embeddings
    batch_embeddings,   \* value returned by _make_api_request
    attempt,            \* loop variable of _make_api_request
    nreq,               \* number of POSTs of the current _make_api_request
    lastStatus,         \* status the API answered to the last POST
    lastWait,           \* seconds slept after the last POST (0: no sleep)
    onlyNet,            \* every POST of the current call failed with NetErr
    requested,          \* batch_texts of every _make_api_request call of the run
    allOk,              \* every answer of the API in the current run was 200
    startCk,            \* what _load_checkpoint returned to the current run
    runs,               \* number of runs started
    faults,             \* number of non-200 answers so far
    embedded,           \* batch indices the API has answered with 200
    preCrash,           \* embedded, as it was when the process was killed
    resumed,            \* the current run is the restart after a kill
    recipes,            \* insert_recipes argument
    insert_batch_size,  \* insert_recipes argument batch_size
    dbpc,               \* position of the process in insert_recipes
    bi,                 \* loop variable i of insert_recipes (offset)
    table,              \* committed rows of the recipes table
    txn,                \* rows written by the open transaction
    attempted,          \* offsets of the batches handed to executemany
    inserted,           \* offsets of the batches whose insert succeeded
    refused,            \* offsets of the batches the server failed for its own reasons
    search_term,        \* find_similar_recipes argument
    limit,              \* find_similar_recipes argument
    results,            \* value returned by find_similar_recipes
    spc,                \* position of the process in find_similar_recipes
    message,            \* text posted to /api/chat
    api,                \* what the generative API did for the last message
    prompt,             \* prompt handed to generate_content
    reply,              \* value returned by process_message
    raised,             \* process_message let an exception out
    http,               \* body returned by the chat endpoint
    mpc,                \* position of the process in main
    conn,               \* the database connection of main: none, open, closed
    existing,           \* rows of the recipes table when main started
    calls,              \* stages main has called on its own objects
    outcome,            \* how main ended: running, returned, raised
    failed,             \* the stage whose exception ended the try ("" if none)
    csv_readable,       \* pd.read_csv can parse the file
    df_columns,         \* columns of the frame read from the file
    df_rows,            \* rows of the frame, each a function from the columns to cells
    recipe_texts,       \* first value returned by get_processed_data
    df_metadata,        \* second value returned by get_processed_data
    dpc                 \* position of the process in get_processed_data

genVars == <<texts, metadata, batch_size, ckpt, pc, i, all_embeddings,
             processed_metadata, batch_embeddings, attempt, nreq,
             lastStatus, lastWait, onlyNet, requested, allOk, startCk, runs, faults, embedded,
             preCrash, resumed>>

dbVars == <<recipes, insert_batch_size, dbpc, bi, table, txn, attempted,
            inserted, refused>>

searchVars == <<search_term, limit, results, spc>>

chatVars == <<message, api, prompt, reply, raised, http>>

\* The components outside the ingestion and search path.
mainVars == <<mpc, conn, existing, calls, outcome, failed>>

dataVars == <<csv_readable, df_columns, df_rows, recipe_texts, df_metadata, dpc>>

restVars == <<chatVars, mainVars, dataVars>>

\* What the actions of one component leave alone.
nonGenVars == <<dbVars, searchVars, restVars>>

nonDbVars == <<genVars, searchVars, restVars>>

vars == <<genVars, dbVars, searchVars, restVars>>

\* ------------------------------------------------------------------------
\* Helpers
\* ------------------------------------------------------------------------
Range(s) == {s[j] : j \in DOMAIN s}

Min(a, b) == IF a < b THEN a ELSE b

\* Python slice seq[lo:hi] with 0-based lo and hi, clipped to the sequence.
Slice(seq, lo, hi) ==
    [j \in 1..(Min(hi, Len(seq)) - Min(lo, Len(seq))) |-> seq[Min(lo, Len(seq)) + j]]

\* The vector the embedding API computes for one text.
Emb(t) == 100 + t

\* Body of a 200 response: one vector per input text, index-aligned.
ApiBody(inputs) == [j \in 1..Len(inputs) |-> Emb(inputs[j])]

None == [isNone |-> TRUE, body |-> <<>>]
Some(b) == [isNone |-> FALSE, body |-> b]

NoCheckpoint == [exists |-> FALSE, batch_index |-> 0, embeddings |-> <<>>, metadata |-> <<>>]

\* ------------------------------------------------------------------------
\* EmbeddingGenerator._make_api_request
\* ------------------------------------------------------------------------
ServerErrorWait(a) == 30 * (a + 1)

NetWait(a) == 10 * (a + 1)

\* response.raise_for_status(): raises HTTPError for a 4xx/5xx status.
\* HTTPError is a RequestException.
RaisesRequestException(status) ==
    status = NetErr \/ (status >= 400 /\ status < 600)

IsLastAttempt_OffByOne(a) == a = max_retries

IsLastAttempt(a) == a = max_retries - 1

NextAttempt_KeepsSlot(status, a) == IF status \in LoopStatuses THEN a ELSE a + 1

\* The value of attempt in the next iteration of "for attempt in range(...)".
NextAttempt(status, a) == a + 1

\* One iteration of the for loop, for the status the API answers:
\* what the iteration ends with and what it passes to time.sleep.
\* wait = 0: the iteration does not sleep.
HandleResponse(status, a) ==
    IF status = 503 THEN [kind |-> "continue", wait |-> Wait503]
    ELSE IF status = 429 THEN [kind |-> "continue", wait |-> Wait429]
    ELSE IF status = 500 THEN [kind |-> "continue", wait |-> ServerErrorWait(a)]
    ELSE IF RaisesRequestException(status)
         THEN IF IsLastAttempt(a)
              THEN [kind |-> "raise", wait |-> 0]
              ELSE [kind |-> "continue", wait |-> NetWait(a)]
    ELSE [kind |-> "return", wait |-> 0]

\* ------------------------------------------------------------------------
\* EmbeddingGenerator._save_checkpoint / _load_checkpoint
\* ------------------------------------------------------------------------
SaveCheckpoint(batch_index, embeddings, meta) ==
    [exists |-> TRUE, batch_index |-> batch_index, embeddings |-> embeddings, metadata |-> meta]

LoadCheckpoint(file) ==
    IF file.exists THEN file ELSE NoCheckpoint

\* ------------------------------------------------------------------------
\* EmbeddingGenerator.generate_embeddings
\* ------------------------------------------------------------------------
BatchTexts_Short(ts, off, B) == Slice(ts, off, off + B - 1)

BatchTexts(ts, off, B) == Slice(ts, off, off + B)

BatchMetadata(ms, off, B) == Slice(ms, off, off + B)

BatchIndex_Next(off, B) == (off \div B) + 1

BatchIndex(off, B) == off \div B

IsCheckpointBatch_FirstOnly(off, B) == BatchIndex(off, B) = 0

IsCheckpointBatch(off, B) == BatchIndex(off, B) % CheckpointEvery = 0

ExtendRaises_Never(res) == FALSE

\* list.extend(None) raises TypeError.
ExtendRaises(res) == res.isNone

InRun == pc \in {"loop", "request", "got", "except"}

\* Entry of generate_embeddings: load the checkpoint, position the loop.
Start ==
    /\ UNCHANGED nonGenVars
    /\ pc \in {"idle", "returned", "raised", "killed"}
    /\ runs < MaxRuns
    /\ LET c == LoadCheckpoint(ckpt) IN
        /\ startCk' = c
        /\ all_embeddings' = c.embeddings
        /\ processed_metadata' = c.metadata
        /\ i' = c.batch_index * batch_size
    /\ pc' = "loop"
    /\ runs' = runs + 1
    /\ requested' = <<>>
    /\ allOk' = TRUE
    /\ nreq' = 0
    /\ lastStatus' = NoStatus
    /\ lastWait' = 0
    /\ onlyNet' = TRUE
    /\ attempt' = 0
    /\ batch_embeddings' = None
    /\ resumed' = (pc = "killed")
    /\ UNCHANGED <<texts, metadata, batch_size, ckpt, faults, embedded, preCrash>>

\* Head of "for i in range(start_batch * batch_size, len(texts), batch_size)":
\* either enter the body and call _make_api_request, or return.
LoopHead ==
    /\ UNCHANGED nonGenVars
    /\ pc = "loop"
    /\ IF i < Len(texts)
       THEN /\ pc' = "request"
            /\ requested' = Append(requested, BatchTexts(texts, i, batch_size))
            /\ attempt' = 0
            /\ nreq' = 0
            /\ lastStatus' = NoStatus
            /\ lastWait' = 0
            /\ onlyNet' = TRUE
       ELSE /\ pc' = "returned"
            /\ UNCHANGED <<requested, attempt, nreq, lastStatus, lastWait, onlyNet>>
    /\ UNCHANGED <<texts, metadata, batch_size, ckpt, i, all_embeddings,
                   processed_metadata, batch_embeddings, allOk, startCk, runs,
                   faults, embedded, preCrash, resumed>>

\* One iteration of the for loop of _make_api_request: POST the batch, the
\* API answers status, the iteration returns, continues or raises.  When
\* the loop runs out of iterations the function falls off its end and
\* returns None.
Request(status) ==
    /\ UNCHANGED nonGenVars
    /\ pc = "request"
    /\ attempt < max_retries
    /\ status # 200 => faults < MaxFaults
    /\ LET h == HandleResponse(status, attempt)
           inputs == BatchTexts(texts, i, batch_size) IN
        /\ nreq' = nreq + 1
        /\ lastStatus' = status
        /\ lastWait' = h.wait
        /\ onlyNet' = (onlyNet /\ status = NetErr)
        /\ allOk' = (allOk /\ status = 200)
        /\ faults' = IF status = 200 THEN faults ELSE faults + 1
        /\ embedded' = IF status = 200 THEN embedded \cup {BatchIndex(i, batch_size)} ELSE embedded
        /\ CASE h.kind = "return" ->
                  /\ batch_embeddings' = Some(ApiBody(inputs))
                  /\ pc' = "got"
                  /\ UNCHANGED attempt
             [] h.kind = "raise" ->
                  /\ pc' = "except"
                  /\ UNCHANGED <<attempt, batch_embeddings>>
             [] h.kind = "continue" ->
                  /\ attempt' = NextAttempt(status, attempt)
                  /\ IF NextAttempt(status, attempt) < max_retries
                     THEN /\ pc' = "request"
                          /\ UNCHANGED batch_embeddings
                     ELSE /\ pc' = "got"
                          /\ batch_embeddings' = None
    /\ UNCHANGED <<texts, metadata, batch_size, ckpt, i, all_embeddings,
                   processed_metadata, requested, startCk, runs, preCrash,
                   resumed>>

\* Rest of the try block after _make_api_request returned: extend both
\* lists, save the checkpoint on every 5th batch, sleep, next iteration.
ProcessBatch ==
    /\ UNCHANGED nonGenVars
    /\ pc = "got"
    /\ IF ExtendRaises(batch_embeddings)
       THEN /\ pc' = "except"
            /\ UNCHANGED <<ckpt, i, all_embeddings, processed_metadata>>
       ELSE /\ all_embeddings' = all_embeddings \o batch_embeddings.body
            /\ processed_metadata' = processed_metadata \o BatchMetadata(metadata, i, batch_size)
            /\ ckpt' = IF IsCheckpointBatch(i, batch_size)
                       THEN SaveCheckpoint(BatchIndex(i, batch_size), all_embeddings', processed_metadata')
                       ELSE ckpt
            /\ i' = i + batch_size
            /\ pc' = "loop"
    /\ UNCHANGED <<texts, metadata, batch_size, batch_embeddings, attempt,
                   nreq, lastStatus, lastWait, onlyNet, requested, allOk,
                   startCk, runs, faults, embedded, preCrash, resumed>>

\* The except block: save the checkpoint, re-raise.
SaveOnError ==
    /\ UNCHANGED nonGenVars
    /\ pc = "except"
    /\ ckpt' = SaveCheckpoint(BatchIndex(i, batch_size), all_embeddings, processed_metadata)
    /\ pc' = "raised"
    /\ UNCHANGED <<texts, metadata, batch_size, i, all_embeddings,
                   processed_metadata, batch_embeddings, attempt, nreq,
                   lastStatus, lastWait, onlyNet, requested, allOk, startCk,
                   runs, faults, embedded, preCrash, resumed>>

\* The process is killed: no handler runs, only the checkpoint file stays.
Kill ==
    /\ UNCHANGED nonGenVars
    /\ InRun
    /\ runs < MaxRuns
    /\ pc' = "killed"
    /\ preCrash' = embedded
    /\ resumed' = FALSE
    /\ UNCHANGED <<texts, metadata, batch_size, ckpt, i, all_embeddings,
                   processed_metadata, batch_embeddings, attempt, nreq,
                   lastStatus, lastWait, onlyNet, requested, allOk, startCk,
                   runs, faults, embedded>>

\* State of the generator before generate_embeddings is called.
GenFresh ==
    /\ ckpt = NoCheckpoint
    /\ pc = "idle"
    /\ i = 0
    /\ all_embeddings = <<>>
    /\ processed_metadata = <<>>
    /\ batch_embeddings = None
    /\ attempt = 0
    /\ nreq = 0
    /\ lastStatus = NoStatus
    /\ lastWait = 0
    /\ onlyNet = TRUE
    /\ requested = <<>>
    /\ allOk = TRUE
    /\ startCk = NoCheckpoint
    /\ runs = 0
    /\ faults = 0
    /\ embedded = {}
    /\ preCrash = {}
    /\ resumed = FALSE

\* State before find_similar_recipes is called.
SearchFresh ==
    /\ search_term = <<>>
    /\ limit = 0
    /\ results = <<>>
    /\ spc = "idle"

\* An outcome of the calls process_message makes to the generative API: an
\* exception raised before a response exists (exc), or a response that has
\* no text attribute, whose text accessor raises, or that carries a text.
ApiOutcome(exc, hasText, textRaises, text) ==
    [exc |-> exc, hasText |-> hasText, textRaises |-> textRaises, text |-> text]

NoOutcome == ApiOutcome("none", FALSE, FALSE, "")

\* State before a message is posted.
ChatFresh ==
    /\ message = <<>>
    /\ api = NoOutcome
    /\ prompt = <<>>
    /\ reply = ""
    /\ raised = FALSE
    /\ http = [kind |-> "none", body |-> ""]

\* State before main runs.
MainFresh ==
    /\ mpc = "start"
    /\ conn = "none"
    /\ existing = {}
    /\ calls = <<>>
    /\ outcome = "running"
    /\ failed = ""

\* State before get_processed_data is called, the file being empty.
DataFresh ==
    /\ csv_readable = FALSE
    /\ df_columns = {}
    /\ df_rows = <<>>
    /\ recipe_texts = <<>>
    /\ df_metadata = <<>>
    /\ dpc = "idle"

RestFresh == ChatFresh /\ MainFresh /\ DataFresh

\* State of the table before insert_recipes is called (create_tables has
\* just dropped and recreated it).
DbFresh ==
    /\ dbpc = "idle"
    /\ bi = 0
    /\ table = {}
    /\ txn = {}
    /\ attempted = <<>>
    /\ inserted = {}
    /\ refused = {}

Init ==
    /\ batch_size \in 1..MaxBatchSize
    /\ \E n \in 0..MaxTexts :
        /\ texts = [j \in 1..n |-> j]
        /\ metadata = [j \in 1..n |-> 200 + j]
    /\ GenFresh
    /\ recipes = <<>>
    /\ insert_batch_size = 1
    /\ DbFresh
    /\ SearchFresh
    /\ RestFresh

\* ------------------------------------------------------------------------
\* VectorDB.insert_recipes
\* ------------------------------------------------------------------------
\* An embedding is written sparsely: its length, the positions that hold
\* float('nan') and the positions that hold 0.0; every other position
\* holds some other float.
Vector(n, nanAt, zeroAt) == [len |-> n, nan |-> nanAt, zero |-> zeroAt]

Sanitize_Keep(embedding) == embedding

\* [0.0 if isinstance(x, float) and math.isnan(x) else x for x in embedding]
Sanitize(embedding) ==
    Vector(embedding.len, {}, embedding.zero \cup embedding.nan)

\* The tuple of values of one recipe, embedding sanitized and serialized.
RecipeValues(recipe) ==
    [id |-> recipe.id, RecipeName |-> recipe.RecipeName,
     Ingredients |-> recipe.Ingredients,
     embedding |-> Sanitize(recipe.embedding)]

\* Preparing the tuple raises (json.dumps cannot serialize the embedding).
PrepareRaises(recipe) == ~recipe.dumpable

\* batch_data: the tuples of the recipes of the batch whose preparation
\* did not raise, in order.
BatchData(batch) ==
    SelectSeq([j \in 1..Len(batch) |->
                 IF PrepareRaises(batch[j])
                 THEN [id |-> -1, embedding |-> Vector(0, {}, {})]
                 ELSE RecipeValues(batch[j])],
              LAMBDA v : v.id # -1)

\* The column embedding VECTOR(768) takes a JSON array of 768 numbers.
VectorColumnAccepts(embedding) ==
    /\ embedding.len = VectorDim
    /\ embedding.nan = {}

RowsAccepted(batch_data) ==
    \A j \in 1..Len(batch_data) : VectorColumnAccepts(batch_data[j].embedding)

Rollback_Missing(pending) == pending

\* self.conn.rollback(): what is left of the open transaction.
Rollback(pending) == {}

\* Call of insert_recipes: open the cursor, position the loop.
InsertStart ==
    /\ UNCHANGED nonDbVars
    /\ dbpc = "idle"
    /\ dbpc' = "loop"
    /\ bi' = 0
    /\ UNCHANGED <<recipes, insert_batch_size, table, txn, attempted, inserted, refused>>

\* One iteration of "for i in range(0, len(recipes), batch_size)": prepare
\* batch_data, then executemany and commit, or rollback when either raises.
\* serverFails: the server refuses the statement for a reason of its own;
\* written: how many rows the statement had written when it failed.
InsertBatch(serverFails, written) ==
    /\ UNCHANGED nonDbVars
    /\ dbpc = "loop"
    /\ bi < Len(recipes)
    /\ LET batch == Slice(recipes, bi, bi + insert_batch_size)
           batch_data == BatchData(batch)
           raises == serverFails \/ ~RowsAccepted(batch_data) IN
        /\ written \in 0..Len(batch_data)
        /\ IF batch_data = <<>>
           THEN /\ ~serverFails
                /\ written = 0
                /\ UNCHANGED <<table, txn, attempted, inserted, refused>>
           ELSE /\ attempted' = Append(attempted, bi)
                /\ IF raises
                   THEN /\ written < Len(batch_data)
                        /\ txn' = Rollback(txn \cup {batch_data[j] : j \in 1..written})
                        /\ refused' = IF serverFails THEN refused \cup {bi} ELSE refused
                        /\ UNCHANGED <<table, inserted>>
                   ELSE /\ written = Len(batch_data)
                        /\ table' = table \cup txn \cup Range(batch_data)
                        /\ txn' = {}
                        /\ inserted' = inserted \cup {bi}
                        /\ UNCHANGED refused
    /\ bi' = bi + insert_batch_size
    /\ UNCHANGED <<recipes, insert_batch_size, dbpc>>

\* The loop is over: insert_recipes returns.
InsertReturn ==
    /\ UNCHANGED nonDbVars
    /\ dbpc = "loop"
    /\ bi >= Len(recipes)
    /\ dbpc' = "done"
    /\ UNCHANGED <<recipes, insert_batch_size, bi, table, txn, attempted, inserted, refused>>

GoodEmbedding == Vector(VectorDim, {}, {3})
NaNEmbedding == Vector(VectorDim, {1, VectorDim}, {3})
ShortEmbedding == Vector(VectorDim - 1, {}, {})
LongEmbedding == Vector(VectorDim + 1, {2}, {})

\* Kinds of record handed to insert_recipes.
RecipeKinds ==
    {[embedding |-> e, dumpable |-> TRUE] :
        e \in {GoodEmbedding, NaNEmbedding, ShortEmbedding, LongEmbedding}}
    \cup {[embedding |-> GoodEmbedding, dumpable |-> FALSE]}

\* The name of the record with the given id.
NameOf(id) == 300 + id

\* process_recipes numbers the records 0, 1, 2, ...
RecipeLists ==
    UNION {{[j \in 1..n |-> [id |-> j - 1, RecipeName |-> NameOf(j - 1),
                              Ingredients |-> <<"a">>,
                              embedding |-> f[j].embedding, dumpable |-> f[j].dumpable]] :
                f \in [1..n -> RecipeKinds]} : n \in 0..MaxRecipes}

InitDB ==
    /\ texts = <<>>
    /\ metadata = <<>>
    /\ batch_size = 1
    /\ GenFresh
    /\ recipes \in RecipeLists
    /\ insert_batch_size \in 1..MaxInsertBatch
    /\ DbFresh
    /\ SearchFresh
    /\ RestFresh

NextDB ==
    \/ InsertStart
    \/ \E serverFails \in BOOLEAN, written \in 0..MaxInsertBatch : InsertBatch(serverFails, written)
    \/ InsertReturn

SpecDB == InitDB /\ [][NextDB]_vars

\* ------------------------------------------------------------------------
\* VectorDB.find_similar_recipes
\* ------------------------------------------------------------------------
\* A string is a sequence of characters.
Chars == {"a", "b", "A", ",", " ", "_"}

\* str.lower() and SQL LOWER(), one character.
LowerChar(c) == IF c = "A" THEN "a" ELSE c

Lower(str) == [j \in 1..Len(str) |-> LowerChar(str[j])]

RECURSIVE LStrip(_)
LStrip(str) ==
    IF str # <<>> /\ Head(str) = " " THEN LStrip(Tail(str)) ELSE str

RECURSIVE RStrip(_)
RStrip(str) ==
    IF str # <<>> /\ str[Len(str)] = " "
    THEN RStrip(SubSeq(str, 1, Len(str) - 1))
    ELSE str

\* str.strip()
Strip(str) == RStrip(LStrip(str))

\* str.split(','): the pieces between the commas, empty ones included.
RECURSIVE Split(_)
Split(str) ==
    IF \E j \in 1..Len(str) : str[j] = ","
    THEN LET c == CHOOSE j \in 1..Len(str) :
                     str[j] = "," /\ \A k \in 1..(j - 1) : str[k] # ","
         IN <<SubSeq(str, 1, c - 1)>> \o Split(SubSeq(str, c + 1, Len(str)))
    ELSE <<str>>

\* [i.strip().lower() for i in search_term.split(',') if i.strip()]
SearchIngredients(term) ==
    LET pieces == Split(term) IN
    SelectSeq([j \in 1..Len(pieces) |-> Lower(Strip(pieces[j]))],
              LAMBDA piece : piece # <<>>)

\* f'%{ingredient}%'
LikeParam(ingredient) == <<"%">> \o ingredient \o <<"%">>

\* SQL "str LIKE pattern": % stands for any string, _ for any character.
RECURSIVE Like(_, _)
Like(str, pattern) ==
    IF pattern = <<>> THEN str = <<>>
    ELSE IF Head(pattern) = "%"
         THEN Like(str, Tail(pattern)) \/ (str # <<>> /\ Like(Tail(str), pattern))
    ELSE /\ str # <<>>
         /\ (Head(pattern) = "_" \/ Head(pattern) = Head(str))
         /\ Like(Tail(str), Tail(pattern))

WhereClause_All(row, ingredients) ==
    \A j \in 1..Len(ingredients) :
        Like(Lower(row.Ingredients), LikeParam(ingredients[j]))

\* "LOWER(Ingredients) LIKE %s" for each ingredient, joined with OR.
WhereClause(row, ingredients) ==
    \E j \in 1..Len(ingredients) :
        Like(Lower(row.Ingredients), LikeParam(ingredients[j]))

\* The dictionary built for one fetched row.
ResultOf(row) ==
    [RecipeName |-> row.RecipeName, Ingredients |-> row.Ingredients, similarity |-> "1.0"]

\* The dictionaries of a set of rows, in the order of their ids.
RECURSIVE ResultList(_)
ResultList(rows) ==
    IF rows = {} THEN <<>>
    ELSE LET first == CHOOSE r \in rows : \A q \in rows : r.id <= q.id
         IN <<ResultOf(first)>> \o ResultList(rows \ {first})

\* The call of find_similar_recipes on the loaded table.  fetched: the rows the server picks
\* under LIMIT among those the WHERE clause selects.
FindSimilar(term, lim, fetched) ==
    /\ dbpc = "done"
    /\ spc = "idle"
    /\ UNCHANGED <<genVars, dbVars, restVars>>
    /\ LET ingredients == SearchIngredients(term)
           selected == {row \in table : WhereClause(row, ingredients)} IN
        IF table = {} \/ ingredients = <<>>
        THEN /\ fetched = {}
             /\ results' = <<>>
        ELSE /\ fetched \subseteq selected
             /\ Cardinality(fetched) = Min(lim, Cardinality(selected))
             /\ results' = ResultList(fetched)
    /\ search_term' = term
    /\ limit' = lim
    /\ spc' = "returned"

\* find_similar_recipes is called with some term and limit.
Search ==
    /\ spc = "idle"
    /\ \E term \in UNION {[1..n -> Chars] : n \in 0..MaxTermLen},
          lim \in 0..MaxLimit, fetched \in SUBSET table :
           FindSimilar(term, lim, fetched)

Terms == UNION {[1..n -> Chars] : n \in 0..MaxTermLen}

IngredientChoices == {<<"a">>, <<"A", "b">>, <<"b", ",", " ", "a">>}

\* Records with a valid embedding and any of the Ingredients fields.
SearchRecipeLists ==
    UNION {{[j \in 1..n |-> [id |-> j - 1, RecipeName |-> NameOf(j - 1),
                              Ingredients |-> f[j],
                              embedding |-> GoodEmbedding, dumpable |-> TRUE]] :
                f \in [1..n -> IngredientChoices]} : n \in 0..MaxStored}

InitSearch ==
    /\ texts = <<>>
    /\ metadata = <<>>
    /\ batch_size = 1
    /\ GenFresh
    /\ recipes \in SearchRecipeLists
    /\ insert_batch_size \in 1..MaxInsertBatch
    /\ DbFresh
    /\ SearchFresh
    /\ RestFresh

NextSearch ==
    \/ InsertStart
    \/ \E serverFails \in BOOLEAN, written \in 0..MaxInsertBatch : InsertBatch(serverFails, written)
    \/ InsertReturn
    \/ Search

SpecSearch == InitSearch /\ [][NextSearch]_vars

\* ------------------------------------------------------------------------
\* CookingAssistant.process_message and the chat endpoint
\* ------------------------------------------------------------------------
NoResponseFallback ==
    "I apologize, but I couldn't generate a response for your query. Please try again."

ErrorFallback ==
    "I apologize, but I encountered an error while trying to generate a response. Please ensure your GEMINI_API_KEY is correct and try again."

ChatError ==
    "Sorry, I encountered an error while processing your message. Please try again."

\* The instructions appended to the user's text.
SystemPrompt == " You are a helpful recipe recommender assistant. ..."

Prompt(msg) == msg \o <<SystemPrompt>>

\* Exceptions the import, configure and generate_content calls raise (no
\* package, no or bad credential, no network); all derive from Exception.
ApiExceptions == {"ImportError", "PermissionDenied", "ConnectionError"}

\* Classes caught by `except Exception`.
ExceptionSubclasses == ApiExceptions \cup {"ValueError"}

\* Python truth value of a string.
Truthy(text) == text # ""

\* hasattr(response, "text") and response.text
HasText_AttrOnly(o) == o.hasText

HasText(o) == o.hasText /\ Truthy(o.text)

\* The body of the try: the exception it ends with ("none" if it returns)
\* and the value it returns.  Reading response.text of a blocked response
\* raises ValueError, which hasattr does not swallow.
TryBody(msg, o) ==
    IF o.exc # "none" THEN [exc |-> o.exc, value |-> ""]
    ELSE IF o.hasText /\ o.textRaises THEN [exc |-> "ValueError", value |-> ""]
    ELSE IF HasText(o) THEN [exc |-> "none", value |-> o.text]
    ELSE [exc |-> "none", value |-> NoResponseFallback]

ProcessMessage(msg, o) ==
    LET body == TryBody(msg, o) IN
    IF body.exc = "none" THEN [raised |-> FALSE, value |-> body.value]
    ELSE IF body.exc \in ExceptionSubclasses
         THEN [raised |-> FALSE, value |-> ErrorFallback]
         ELSE [raised |-> TRUE, value |-> ""]

\* POST /api/chat: the endpoint hands the text to process_message.
Chat(msg, o) ==
    /\ message' = msg
    /\ api' = o
    /\ prompt' = IF o.exc = "ImportError" THEN <<>> ELSE Prompt(msg)
    /\ LET r == ProcessMessage(msg, o) IN
        /\ reply' = r.value
        /\ raised' = r.raised
        /\ http' = IF r.raised THEN [kind |-> "error", body |-> ChatError]
                               ELSE [kind |-> "response", body |-> r.value]
    /\ UNCHANGED <<genVars, dbVars, searchVars, mainVars, dataVars>>

MessageChars == {" ", "x", "y"}

Messages == UNION {[1..n -> MessageChars] : n \in 0..MaxMessageLen}

ApiTexts == {"Dal. 30 minutes. Lentils. Boil.",
             "I'm sorry, I can only help with recipe recommendations."}

ApiOutcomes ==
    {ApiOutcome(e, FALSE, FALSE, "") : e \in ApiExceptions}
    \cup {ApiOutcome("none", FALSE, FALSE, "")}
    \cup {ApiOutcome("none", TRUE, TRUE, "")}
    \cup {ApiOutcome("none", TRUE, FALSE, t) : t \in ApiTexts \cup {""}}

InitChat ==
    /\ texts = <<>>
    /\ metadata = <<>>
    /\ batch_size = 1
    /\ GenFresh
    /\ recipes = <<>>
    /\ insert_batch_size = 1
    /\ DbFresh
    /\ SearchFresh
    /\ RestFresh

NextChat == \E msg \in Messages, o \in ApiOutcomes : Chat(msg, o)

SpecChat == InitChat /\ [][NextChat]_vars

\* ------------------------------------------------------------------------
\* main of process_and_store.py
\* ------------------------------------------------------------------------
\* Default batch sizes of process_recipes and insert_recipes, used by main.
DefaultBatchSize == 32

DefaultInsertBatchSize == 50

\* The statements of the try block, in order, then the finally block.
Successor(stage) ==
    CASE stage = "get_processed_data" -> "process_recipes"
      [] stage = "process_recipes" -> "create_tables"
      [] stage = "create_tables" -> "insert_recipes"
      [] stage = "insert_recipes" -> "finally"

NextStage_Swallow(stage, ok) == Successor(stage)

\* Where control goes after a statement of the try block.
NextStage(stage, ok) == IF ok THEN Successor(stage) ELSE "except"

\* The constructors, outside the try: EmbeddingGenerator() raises without
\* HF_TOKEN, VectorDB() raises without a connection string or when the
\* connection cannot be made; then main ends with no connection made.
MainConstruct(hasToken, connects) ==
    /\ mpc = "start"
    /\ IF hasToken /\ connects
       THEN /\ conn' = "open"
            /\ mpc' = "get_processed_data"
            /\ UNCHANGED <<outcome, failed>>
       ELSE /\ mpc' = "exit"
            /\ outcome' = "raised"
            /\ failed' = "constructor"
            /\ UNCHANGED conn
    /\ UNCHANGED <<genVars, dbVars, searchVars, chatVars, dataVars, existing, calls>>

\* recipe_texts, metadata = data_processor.get_processed_data()
MainGetProcessedData(n, ok) ==
    /\ mpc = "get_processed_data"
    /\ calls' = Append(calls, "get_processed_data")
    /\ mpc' = NextStage("get_processed_data", ok)
    /\ IF ok
       THEN /\ texts' = [j \in 1..n |-> j]
            /\ metadata' = [j \in 1..n |-> 200 + j]
            /\ UNCHANGED failed
       ELSE /\ n = 0
            /\ failed' = "get_processed_data"
            /\ UNCHANGED <<texts, metadata>>
    /\ UNCHANGED <<batch_size, ckpt, pc, i, all_embeddings, processed_metadata,
                   batch_embeddings, attempt, nreq, lastStatus, lastWait, onlyNet,
                   requested, allOk, startCk, runs, faults, embedded, preCrash,
                   resumed>>
    /\ UNCHANGED <<dbVars, searchVars, chatVars, dataVars, conn, existing, outcome>>

\* embedding_generator.process_recipes(recipe_texts, metadata) while
\* generate_embeddings runs.
MainGenerateEmbeddings ==
    /\ mpc = "process_recipes"
    /\ pc \notin {"returned", "raised"}
    /\ \/ Start
       \/ LoopHead
       \/ \E status \in Statuses : Request(status)
       \/ ProcessBatch
       \/ SaveOnError

\* The records process_recipes builds from zip(recipe_texts,
\* processed_metadata, embeddings); the metadata's columns override the
\* name taken from the text.
ProcessedRecipes(ts, ms, es) ==
    [j \in 1..Min(Len(ts), Min(Len(ms), Len(es))) |->
        [id |-> j - 1, RecipeName |-> ms[j], Ingredients |-> <<"a">>,
         embedding |-> GoodEmbedding, dumpable |-> TRUE]]

\* generate_embeddings has returned or raised: process_recipes returns the
\* records, or lets the exception through.
MainProcessRecipes ==
    /\ mpc = "process_recipes"
    /\ pc \in {"returned", "raised"}
    /\ mpc' = NextStage("process_recipes", pc = "returned")
    /\ IF pc = "returned"
       THEN /\ recipes' = ProcessedRecipes(texts, processed_metadata, all_embeddings)
            /\ UNCHANGED failed
       ELSE /\ failed' = "process_recipes"
            /\ UNCHANGED recipes
    /\ UNCHANGED <<insert_batch_size, dbpc, bi, table, txn, attempted, inserted, refused>>
    /\ UNCHANGED <<genVars, searchVars, chatVars, dataVars, conn, existing, calls, outcome>>

\* vector_db.create_tables(): DROP TABLE IF EXISTS, CREATE TABLE, commit.
\* When it raises, the table may or may not have been dropped already.
MainCreateTables(ok, dropped) ==
    /\ mpc = "create_tables"
    /\ calls' = Append(calls, "create_tables")
    /\ mpc' = NextStage("create_tables", ok)
    /\ IF ok
       THEN /\ dropped
            /\ table' = {}
            /\ UNCHANGED failed
       ELSE /\ table' = IF dropped THEN {} ELSE table
            /\ failed' = "create_tables"
    /\ UNCHANGED <<recipes, insert_batch_size, dbpc, bi, txn, attempted, inserted, refused>>
    /\ UNCHANGED <<genVars, searchVars, chatVars, dataVars, conn, existing, outcome>>

\* vector_db.insert_recipes(processed_recipes) while it runs.
MainInsertRecipes ==
    /\ mpc = "insert_recipes"
    /\ dbpc # "done"
    /\ \/ InsertStart
       \/ \E serverFails \in BOOLEAN, written \in 0..MaxCsvRows : InsertBatch(serverFails, written)
       \/ InsertReturn

\* insert_recipes has returned: the try block is over.
MainTryDone ==
    /\ mpc = "insert_recipes"
    /\ dbpc = "done"
    /\ mpc' = NextStage("insert_recipes", TRUE)
    /\ UNCHANGED <<genVars, dbVars, searchVars, chatVars, dataVars, conn, existing, calls, outcome, failed>>

\* except Exception: log, raise.
MainExcept ==
    /\ mpc = "except"
    /\ outcome' = "raised"
    /\ mpc' = "finally"
    /\ UNCHANGED <<genVars, dbVars, searchVars, chatVars, dataVars, conn, existing, calls, failed>>

\* finally: vector_db.close()
MainFinally ==
    /\ mpc = "finally"
    /\ conn' = "closed"
    /\ outcome' = IF outcome = "raised" THEN "raised" ELSE "returned"
    /\ mpc' = "exit"
    /\ UNCHANGED <<genVars, dbVars, searchVars, chatVars, dataVars, existing, calls, failed>>

\* Rows left in the recipes table by an earlier ingestion.
ExistingTables ==
    {{}, {[id |-> 0, RecipeName |-> 999, Ingredients |-> <<"b">>,
           embedding |-> Sanitize(GoodEmbedding)]}}

InitMain ==
    /\ texts = <<>>
    /\ metadata = <<>>
    /\ batch_size = DefaultBatchSize
    /\ GenFresh
    /\ recipes = <<>>
    /\ insert_batch_size = DefaultInsertBatchSize
    /\ dbpc = "idle"
    /\ bi = 0
    /\ table \in ExistingTables
    /\ txn = {}
    /\ attempted = <<>>
    /\ inserted = {}
    /\ refused = {}
    /\ SearchFresh
    /\ ChatFresh
    /\ DataFresh
    /\ mpc = "start"
    /\ conn = "none"
    /\ existing = table
    /\ calls = <<>>
    /\ outcome = "running"
    /\ failed = ""

NextMain ==
    \/ \E hasToken \in BOOLEAN, connects \in BOOLEAN : MainConstruct(hasToken, connects)
    \/ \E n \in 0..MaxCsvRows, ok \in BOOLEAN : MainGetProcessedData(n, ok)
    \/ MainGenerateEmbeddings
    \/ MainProcessRecipes
    \/ \E ok \in BOOLEAN, dropped \in BOOLEAN : MainCreateTables(ok, dropped)
    \/ MainInsertRecipes
    \/ MainTryDone
    \/ MainExcept
    \/ MainFinally

SpecMain == InitMain /\ [][NextMain]_vars

\* ------------------------------------------------------------------------
\* DataProcessor.get_processed_data
\* ------------------------------------------------------------------------
\* A cell of the frame: read_csv turns an empty field into the float NaN,
\* any other field is its string.
NaN == [isNaN |-> TRUE, str |-> ""]

Str(text) == [isNaN |-> FALSE, str |-> text]

\* What an f-string writes for a value.
Format(value) == IF value.isNaN THEN "nan" ELSE value.str

\* row.get(key, default)
RowGet(row, key, default) == IF key \in DOMAIN row THEN row[key] ELSE default

\* The text built for one row.
RecipeText(row) ==
    <<"Recipe: ", Format(RowGet(row, "RecipeName", Str(""))),
      ". Ingredients: ", Format(RowGet(row, "Ingredients", Str(""))),
      ". TimeToCook: ", Format(RowGet(row, "TimeToCook", Str(""))),
      ". Instructions: ", Format(RowGet(row, "Instructions", Str("")))>>

\* get_processed_data: read the file, build one text per row, return the
\* texts and the rows as records; any exception is logged and re-raised.
GetProcessedData ==
    /\ dpc = "idle"
    /\ IF csv_readable
       THEN /\ recipe_texts' = [j \in 1..Len(df_rows) |-> RecipeText(df_rows[j])]
            /\ df_metadata' = df_rows
            /\ dpc' = "returned"
       ELSE /\ dpc' = "raised"
            /\ UNCHANGED <<recipe_texts, df_metadata>>
    /\ UNCHANGED <<csv_readable, df_columns, df_rows>>
    /\ UNCHANGED <<genVars, dbVars, searchVars, chatVars, mainVars>>

Fields == {"RecipeName", "Ingredients", "TimeToCook", "Instructions"}

Cells == {NaN, Str("x")}

\* A file that cannot be parsed, or a frame with some of the four columns
\* and rows whose cells are empty or not.
InitData ==
    /\ texts = <<>>
    /\ metadata = <<>>
    /\ batch_size = 1
    /\ GenFresh
    /\ recipes = <<>>
    /\ insert_batch_size = 1
    /\ DbFresh
    /\ SearchFresh
    /\ ChatFresh
    /\ MainFresh
    /\ csv_readable \in BOOLEAN
    /\ IF csv_readable
       THEN /\ df_columns \in (SUBSET Fields) \ {{}}
            /\ \E n \in 0..MaxFrameRows : df_rows \in [1..n -> [df_columns -> Cells]]
       ELSE /\ df_columns = {}
            /\ df_rows = <<>>
    /\ recipe_texts = <<>>
    /\ df_metadata = <<>>
    /\ dpc = "idle"

NextData == GetProcessedData

SpecData == InitData /\ [][NextData]_vars

Next ==
    \/ Start
    \/ LoopHead
    \/ \E status \in Statuses : Request(status)
    \/ ProcessBatch
    \/ SaveOnError
    \/ Kill

Spec == Init /\ [][Next]_vars

\* ------------------------------------------------------------------------
\* Properties of EmbeddingGenerator
\* ------------------------------------------------------------------------
IsPrefix(s, t) == Len(s) <= Len(t) /\ \A j \in 1..Len(s) : s[j] = t[j]

NumBatches(ts, B) == (Len(ts) + B - 1) \div B

\* texts[0:B], texts[B:2B], ... from batch number k on.
SlicesFrom(ts, k, B) ==
    [b \in 1..(NumBatches(ts, B) - Min(k, NumBatches(ts, B))) |->
        Slice(ts, (k + b - 1) * B, (k + b) * B)]

\* The output of a run that starts from checkpoint c and is answered 200
\* to every request.
CleanEmbeddings(c) ==
    c.embeddings \o ApiBody(Slice(texts, c.batch_index * batch_size, Len(texts)))

CleanMetadata(c) ==
    c.metadata \o Slice(metadata, c.batch_index * batch_size, Len(texts))

\* C1: a run without checkpoint in which every answer is 200 requests the
\* slices texts[0:B], texts[B:2B], ... in order, each with one POST, and
\* returns len(texts) embeddings and metadata entries, the i-th embedding
\* being the one of texts[i] and the i-th metadata entry metadata[i].
C1_CleanRunAligned ==
    (~startCk.exists /\ allOk) =>
        /\ InRun => IsPrefix(requested, SlicesFrom(texts, 0, batch_size))
        /\ pc = "got" => nreq = 1
        /\ pc = "returned" =>
            /\ requested = SlicesFrom(texts, 0, batch_size)
            /\ Len(all_embeddings) = Len(texts)
            /\ Len(processed_metadata) = Len(texts)
            /\ \A j \in 1..Len(texts) :
                /\ all_embeddings[j] = Emb(texts[j])
                /\ processed_metadata[j] = metadata[j]

C1_Witness ==
    /\ pc = "returned"
    /\ ~startCk.exists
    /\ allOk
    /\ batch_size = 2
    /\ Len(texts) >= 3

\* C2: a run that loads a checkpoint with batch_index k which an earlier
\* run persisted requests only the slices of texts[k*B:], and its output
\* has length len(texts) with the i-th embedding belonging to texts[i].
C2_ResumeAligned ==
    (pc = "returned" /\ startCk.exists) =>
        /\ requested = SlicesFrom(texts, startCk.batch_index, batch_size)
        /\ Len(all_embeddings) = Len(texts)
        /\ \A j \in 1..Len(texts) : all_embeddings[j] = Emb(texts[j])

\* C3 (as claimed): a 503, 429 or 500 answer does not consume an attempt,
\* the same request is issued again.
C3_LoopStatusKeepsAttempt ==
    [][(nreq' = nreq + 1 /\ lastStatus' \in LoopStatuses) =>
            (attempt' = attempt /\ pc' = "request")]_vars

\* C3 (amended): a 503, 429 or 500 answer consumes one of the max_retries
\* attempts: after the wait the request is issued again only while
\* attempts remain, at most max_retries requests are sent for one batch,
\* and after the last attempt the call ends returning None.
C3_LoopStatusConsumesAttempt ==
    [][(nreq' = nreq + 1 /\ lastStatus' \in LoopStatuses) =>
            /\ attempt' = attempt + 1
            /\ nreq' <= max_retries
            /\ lastWait' > 0
            /\ IF attempt' < max_retries
               THEN pc' = "request"
               ELSE pc' = "got" /\ batch_embeddings'.isNone]_vars

C3_Witness ==
    /\ pc = "got"
    /\ batch_embeddings.isNone
    /\ lastStatus \in LoopStatuses
    /\ nreq = max_retries

\* C4: an HTTP error status other than 503, 429 and 500 makes
\* _make_api_request raise at that response, without sleep and without
\* another request.
C4_OtherHttpRaisesAtOnce ==
    (lastStatus \in OtherHttpErrors /\ pc # "killed") =>
        (pc \in {"except", "raised"} /\ lastWait = 0)

\* C5: when every request of a batch fails with a network exception,
\* exactly max_retries (5) requests are sent, the call sleeps 10, 20, 30,
\* 40 s after the first four failures, and the fifth failure is re-raised
\* to the caller without sleep.
C5_NetworkRetries ==
    (onlyNet /\ nreq >= 1 /\ pc \in {"request", "got", "except"}) =>
        /\ nreq <= 5
        /\ nreq < 5 => (pc = "request" /\ lastWait = 10 * nreq /\ attempt = nreq)
        /\ nreq = 5 => (pc = "except" /\ lastWait = 0)

C5_Witness ==
    /\ onlyNet
    /\ nreq = 5
    /\ pc = "except"

\* C6: a run that returns after transient failures (429, 503, 500, network
\* exception) returns the embeddings and metadata, in the same order, of
\* the run from the same checkpoint that is answered 200 at once.
C6_RetryTransparent ==
    pc = "returned" =>
        /\ all_embeddings = CleanEmbeddings(startCk)
        /\ processed_metadata = CleanMetadata(startCk)

C6_Witness ==
    /\ pc = "returned"
    /\ ~allOk
    /\ Len(requested) >= 2

\* C7: when generate_embeddings raises while processing batch k, the
\* checkpoint file holds batch_index = k and every embedding and metadata
\* entry accumulated so far: those loaded at the start plus those of the
\* batches that succeeded in this run.
C7_CheckpointBeforeRaise ==
    pc = "raised" =>
        LET k == startCk.batch_index + Len(requested) - 1 IN
        /\ Len(requested) >= 1
        /\ ckpt.exists
        /\ ckpt.batch_index = k
        /\ ckpt.embeddings = all_embeddings
        /\ ckpt.metadata = processed_metadata
        /\ all_embeddings =
             startCk.embeddings \o
             ApiBody(Slice(texts, startCk.batch_index * batch_size, k * batch_size))
        /\ processed_metadata =
             startCk.metadata \o
             Slice(metadata, startCk.batch_index * batch_size, k * batch_size)

C7_Witness ==
    /\ pc = "raised"
    /\ Len(requested) >= 2
    /\ startCk.exists

\* Batches the API had answered with 200 before the kill and that the
\* restarted run sends again.
Resent ==
    {b \in preCrash : BatchTexts(texts, b * batch_size, batch_size) \in Range(requested)}

\* C8 (as claimed): the run restarted after a kill sends again at most 4
\* batches that had been embedded before the kill.
C8_ResendsAtMost4 ==
    resumed => Cardinality(Resent) <= 4

\* C8 (amended): the run restarted after a kill sends again at most 6
\* batches that had been embedded before the kill: the batch of the last
\* checkpoint itself, the 4 after it, and the next 5th batch when the kill
\* falls between its 200 answer and its checkpoint.
C8_ResendsAtMost6 ==
    resumed => Cardinality(Resent) <= 6

C8_Witness ==
    /\ resumed
    /\ Cardinality(Resent) = 6

\* ------------------------------------------------------------------------
\* Properties of VectorDB.insert_recipes
\* ------------------------------------------------------------------------
\* Offset of the batch that holds recipes[j].
OffsetOf(j) == ((j - 1) \div insert_batch_size) * insert_batch_size

BatchOffsets == {o \in 0..(Len(recipes) - 1) : o % insert_batch_size = 0}

RecipesOfBatch(o) ==
    {j \in 1..Len(recipes) : OffsetOf(j) = o}

\* The row recipes[j] is stored as: its NaN values replaced by 0.0.
StoredRow(j) ==
    [id |-> recipes[j].id,
     RecipeName |-> recipes[j].RecipeName,
     Ingredients |-> recipes[j].Ingredients,
     embedding |-> [len |-> recipes[j].embedding.len,
                    nan |-> {},
                    zero |-> recipes[j].embedding.zero \cup recipes[j].embedding.nan]]

\* The rows of the recipes of batch o whose preparation does not raise.
PreparedRows(o) ==
    {StoredRow(j) : j \in {k \in RecipesOfBatch(o) : recipes[k].dumpable}}

\* C9: a batch whose insert fails is rolled back (none of its rows is in
\* the table) and is not attempted again, every later batch is still
\* attempted, and when insert_recipes returns the table holds exactly the
\* rows of the batches whose insert succeeded.
C9_BatchAtomic ==
    /\ txn = {}
    /\ table = UNION {PreparedRows(o) : o \in inserted}
    /\ \A o \in Range(attempted) \ inserted : PreparedRows(o) \cap table = {}
    /\ \A a, b \in 1..Len(attempted) : attempted[a] = attempted[b] => a = b
    /\ dbpc = "done" =>
         Range(attempted) = {o \in BatchOffsets : PreparedRows(o) # {}}

C9_Witness ==
    /\ dbpc = "done"
    /\ \E o1, o2 \in Range(attempted) :
        /\ o1 < o2
        /\ o1 \notin inserted
        /\ o2 \in inserted
        /\ Cardinality(PreparedRows(o1)) = 2

\* The record is valid: it can be prepared and has 768 elements.
ValidRecipe(j) ==
    recipes[j].dumpable /\ recipes[j].embedding.len = VectorDim

\* C10 (as claimed): a record with NaN values is stored with 0.0 in their
\* place, a record whose embedding has not 768 elements is rejected alone,
\* and every valid record of the same batch is still inserted.
C10_RowRejectedAlone ==
    dbpc = "done" =>
        \A j \in 1..Len(recipes) :
            (ValidRecipe(j) /\ OffsetOf(j) \notin refused) => StoredRow(j) \in table

\* C10 (amended): a record with NaN values is stored with 0.0 in their
\* place and does not abort its batch; a record whose embedding has not
\* 768 elements makes the insert of its whole batch fail, so that none of
\* the records of that batch, the valid ones included, is stored; the
\* records of the other batches are not affected.
C10_BatchRejected ==
    /\ \A row \in table : row.embedding.nan = {} /\ row.embedding.len = VectorDim
    /\ dbpc = "done" =>
        \A j \in 1..Len(recipes) :
            StoredRow(j) \in table <=>
                /\ recipes[j].dumpable
                /\ OffsetOf(j) \notin refused
                /\ \A k \in RecipesOfBatch(OffsetOf(j)) :
                     recipes[k].dumpable => recipes[k].embedding.len = VectorDim

C10_Witness ==
    /\ dbpc = "done"
    /\ \E j, k \in 1..Len(recipes) :
        /\ j # k
        /\ OffsetOf(j) = OffsetOf(k)
        /\ recipes[j].embedding.nan # {}
        /\ StoredRow(j) \in table
        /\ StoredRow(k) \in table
    /\ \E j, k \in 1..Len(recipes) :
        /\ OffsetOf(j) = OffsetOf(k)
        /\ OffsetOf(j) \notin refused
        /\ ValidRecipe(j)
        /\ recipes[k].dumpable
        /\ recipes[k].embedding.len # VectorDim
        /\ StoredRow(j) \notin table

\* C16: _make_api_request sends at most max_retries requests and ends
\* either returning the body of a 200 response or raising; it never
\* returns None.
C16_ReturnsBodyOrRaises ==
    /\ nreq <= max_retries
    /\ pc = "got" => (~batch_embeddings.isNone /\ lastStatus = 200)

\* ------------------------------------------------------------------------
\* Properties of VectorDB.find_similar_recipes
\* ------------------------------------------------------------------------
\* sub occurs in str, character for character.
IsSubstring(sub, str) ==
    \E k \in 0..(Len(str) - Len(sub)) :
        \A j \in 1..Len(sub) : str[k + j] = sub[j]

\* The stored rows that match the term as the query states it.
Matching(term) ==
    {row \in table :
        \E j \in 1..Len(SearchIngredients(term)) :
            Like(Lower(row.Ingredients), <<"%">> \o SearchIngredients(term)[j] \o <<"%">>)}

HasNonBlankPiece(term) == \E j \in 1..Len(term) : term[j] \notin {" ", ","}

NoWildcard(term) == \A j \in 1..Len(term) : term[j] \notin {"%", "_"}

Searched == spc = "returned" /\ dbpc = "done"

\* C11 (as claimed): for every limit, a term that is a substring of the
\* Ingredients of a stored record returns that record, and a term that
\* occurs in no stored Ingredients returns an empty sequence.
C11_SubstringFound ==
    Searched =>
        /\ \A row \in table :
             IsSubstring(search_term, row.Ingredients) => ResultOf(row) \in Range(results)
        /\ (\A row \in table : ~IsSubstring(search_term, row.Ingredients)) => results = <<>>

\* C11 (amended): the call returns min(limit, m) records, m being the
\* number of stored records that match one of the pieces of the term; so a
\* record that has the term as a substring is returned when the term has
\* a piece that is not blank and at most limit records match, and the
\* result is empty when the term has no wildcard and none of its trimmed,
\* lower-cased pieces occurs in a lower-cased stored Ingredients.
C11_SubstringFoundWithinLimit ==
    Searched =>
        /\ Len(results) = Min(limit, Cardinality(Matching(search_term)))
        /\ \A row \in table :
             (/\ IsSubstring(search_term, row.Ingredients)
              /\ HasNonBlankPiece(search_term)
              /\ Cardinality(Matching(search_term)) <= limit)
             => ResultOf(row) \in Range(results)
        /\ (/\ NoWildcard(search_term)
            /\ \A row \in table : \A j \in 1..Len(SearchIngredients(search_term)) :
                 ~IsSubstring(SearchIngredients(search_term)[j], Lower(row.Ingredients)))
           => results = <<>>

C11_Witness ==
    /\ Searched
    /\ Len(search_term) >= 2
    /\ Cardinality(Matching(search_term)) = 2
    /\ limit = 2
    /\ \E row \in table :
        /\ IsSubstring(search_term, row.Ingredients)
        /\ ResultOf(row) \in Range(results)

\* C12: the call returns at most limit results, each a stored recipe whose
\* Ingredients contains, case-insensitively, one of the trimmed non-empty
\* comma-separated terms, each with similarity 1.0; with an empty table or
\* no term it returns an empty sequence.
C12_ResultsContainTerm ==
    spc = "returned" =>
        /\ Len(results) <= limit
        /\ \A k \in 1..Len(results) :
            /\ results[k].similarity = "1.0"
            /\ \E row \in table : ResultOf(row) = results[k]
            /\ \E j \in 1..Len(SearchIngredients(search_term)) :
                 IsSubstring(SearchIngredients(search_term)[j], Lower(results[k].Ingredients))
        /\ (table = {} \/ SearchIngredients(search_term) = <<>>) => results = <<>>

\* ------------------------------------------------------------------------
\* Properties of CookingAssistant.process_message
\* ------------------------------------------------------------------------
IsBlank(msg) == \A j \in 1..Len(msg) : msg[j] = " "

Fallbacks == {NoResponseFallback, ErrorFallback}

Chatted == http.kind # "none"

\* The API raised, or the response carries no text.
ApiFailed == api.exc # "none" \/ ~api.hasText \/ api.textRaises \/ api.text = ""

\* C13 (as claimed): process_message never lets an exception out; when the
\* user text is empty or only whitespace, or the API raises or returns no
\* text, the value returned is one of the two fallback strings; otherwise
\* it is the API's text unchanged.
C13_BlankOrFailureFallsBack ==
    Chatted =>
        /\ ~raised
        /\ IF IsBlank(message) \/ ApiFailed
           THEN reply \in Fallbacks
           ELSE reply = api.text

\* C13 (amended): process_message never lets an exception out; when the
\* API raises the value returned is the error fallback, when it returns no
\* text or an empty text the value is the no-response fallback; otherwise,
\* whatever the user text (also empty or only whitespace, which is sent
\* with the instructions appended like any other), the value is the API's
\* text unchanged, and the endpoint answers with that value.
C13_FailureFallsBack ==
    Chatted =>
        /\ ~raised
        /\ (api.exc # "none" \/ (api.hasText /\ api.textRaises)) => reply = ErrorFallback
        /\ (api.exc = "none" /\ ~(api.hasText /\ api.textRaises)
              /\ (~api.hasText \/ api.text = "")) => reply = NoResponseFallback
        /\ ~ApiFailed => (reply = api.text /\ prompt = Prompt(message))
        /\ http = [kind |-> "response", body |-> reply]

C13_Witness ==
    /\ Chatted
    /\ IsBlank(message)
    /\ Len(message) > 0
    /\ ~ApiFailed
    /\ reply = api.text
    /\ reply \notin Fallbacks

\* ------------------------------------------------------------------------
\* Properties of main
\* ------------------------------------------------------------------------
Called(stage) ==
    CASE stage = "process_recipes" -> runs > 0
      [] stage = "insert_recipes" -> dbpc # "idle"
      [] OTHER -> stage \in Range(calls)

\* C14: when get_processed_data or process_recipes raises, main raises and
\* no later stage runs: create_tables and insert_recipes are not called
\* and the recipes table is as it was; the table is dropped only after
\* generate_embeddings returned; and main never ends with the connection
\* open.
C14_EarlyFailureLeavesTable ==
    /\ failed \in {"get_processed_data", "process_recipes"} =>
          /\ ~Called("create_tables")
          /\ ~Called("insert_recipes")
          /\ table = existing
          /\ mpc = "exit" => outcome = "raised"
    /\ failed = "get_processed_data" => ~Called("process_recipes")
    /\ Called("create_tables") => (pc = "returned" /\ failed \in {"", "create_tables"})
    /\ mpc = "exit" => (conn # "open" /\ (failed # "constructor" => conn = "closed"))

C14_Witness ==
    /\ mpc = "exit"
    /\ failed = "process_recipes"
    /\ nreq > 0
    /\ existing # {}
    /\ table = existing
    /\ conn = "closed"
    /\ outcome = "raised"

\* ------------------------------------------------------------------------
\* Properties of DataProcessor.get_processed_data
\* ------------------------------------------------------------------------
\* A value is missing from a row: the column is absent or the cell empty.
Missing(row, key) == key \notin DOMAIN row \/ row[key].isNaN

ValueOrEmpty(row, key) == IF Missing(row, key) THEN "" ELSE row[key].str

\* C15: for any frame, get_processed_data returns one text and one metadata
\* record per row, index-aligned and in row order, and each text holds the
\* four labels in order, each followed by the row's value or, when the
\* value is missing (absent column or empty cell), by the empty string;
\* no row makes it raise.
C15_MissingRendersEmpty ==
    /\ (dpc # "idle" /\ csv_readable) => dpc = "returned"
    /\ dpc = "returned" =>
          /\ Len(recipe_texts) = Len(df_rows)
          /\ Len(df_metadata) = Len(df_rows)
          /\ \A j \in 1..Len(df_rows) :
                /\ df_metadata[j] = df_rows[j]
                /\ recipe_texts[j] =
                     <<"Recipe: ", ValueOrEmpty(df_rows[j], "RecipeName"),
                       ". Ingredients: ", ValueOrEmpty(df_rows[j], "Ingredients"),
                       ". TimeToCook: ", ValueOrEmpty(df_rows[j], "TimeToCook"),
                       ". Instructions: ", ValueOrEmpty(df_rows[j], "Instructions")>>

====
